---- MODULE Spec2Model ----
(***************************************************************************)
(* Model of src/undo.rs: the Event vocabulary, the EventStack history      *)
(* container (history + current_patch) and the event inversion function    *)
(* reverse().                                                              *)
(***************************************************************************)
EXTENDS Integers, Sequences, FiniteSets, TLC

(***************************************************************************)
(* Bounds of the model.                                                    *)
(***************************************************************************)
\* events held by one EventStack (history and current_patch together)
MaxStored == 3
\* patches held in history
MaxHist == 3
\* width of the scaled-down usize
UsizeBits == 2
\* rows in a Vec<Row> payload
MaxRows == 1
\* events in a patch handed to append
MaxAppend == 2
\* calls of reverse() chained on one event
MaxReverse == 2

(***************************************************************************)
(* Option<T>: None and Some(x).                                            *)
(***************************************************************************)
None == <<>>

Some(x) == <<x>>

(***************************************************************************)
(* Payload domains.                                                        *)
(***************************************************************************)
UsizeMax == 2 ^ UsizeBits - 1

Usizes == 0 .. UsizeMax

Positions == [x : Usizes, y : Usizes]

Chars == {"a", "b"}

BankTypes == {"Line", "Cursor"}

Directions == {"Up", "Down", "Left", "Right"}

Deltas == {-1, 1}

Bools == {TRUE, FALSE}

Paths == {None, Some("f")}

RowFrom(s) == [string |-> s]

Rows == {RowFrom(s) : s \in {"", "a", "b"}}

RowVecs == UNION {[1 .. n -> Rows] : n \in 0 .. MaxRows}

(***************************************************************************)
(* enum Event: one constructor per variant.                                *)
(***************************************************************************)
Store(bank, i) == [tag |-> "Store", bank |-> bank, i |-> i]

Load(bank, i) == [tag |-> "Load", bank |-> bank, i |-> i]

SpliceUp(pos) == [tag |-> "SpliceUp", pos |-> pos]

SplitDown(pos) == [tag |-> "SplitDown", pos |-> pos]

InsertLineAbove(y) == [tag |-> "InsertLineAbove", y |-> y]

InsertLineBelow(y) == [tag |-> "InsertLineBelow", y |-> y]

Deletion(pos, ch) == [tag |-> "Deletion", pos |-> pos, ch |-> ch]

Insertion(pos, ch) == [tag |-> "Insertion", pos |-> pos, ch |-> ch]

DeleteLine(y, row) == [tag |-> "DeleteLine", y |-> y, row |-> row]

UpdateLine(y, b, a) == [tag |-> "UpdateLine", y |-> y, before |-> b, after |-> a]

MoveCursor(d, dir) == [tag |-> "MoveCursor", delta |-> d, dir |-> dir]

GotoCursor(pos) == [tag |-> "GotoCursor", pos |-> pos]

Overwrite(b, a) == [tag |-> "Overwrite", before |-> b, after |-> a]

New == [tag |-> "New"]

Open(path) == [tag |-> "Open", path |-> path]

Save(path, flag) == [tag |-> "Save", path |-> path, flag |-> flag]

SaveAll == [tag |-> "SaveAll"]

Undo == [tag |-> "Undo"]

Redo == [tag |-> "Redo"]

Commit == [tag |-> "Commit"]

Quit(flag) == [tag |-> "Quit", flag |-> flag]

QuitAll(flag) == [tag |-> "QuitAll", flag |-> flag]

NextTab == [tag |-> "NextTab"]

PrevTab == [tag |-> "PrevTab"]

Events ==
    {Store(b, i) : b \in BankTypes, i \in Usizes}
    \cup {Load(b, i) : b \in BankTypes, i \in Usizes}
    \cup {SpliceUp(p) : p \in Positions}
    \cup {SplitDown(p) : p \in Positions}
    \cup {InsertLineAbove(y) : y \in Usizes}
    \cup {InsertLineBelow(y) : y \in Usizes}
    \cup {Deletion(p, c) : p \in Positions, c \in Chars}
    \cup {Insertion(p, c) : p \in Positions, c \in Chars}
    \cup {DeleteLine(y, r) : y \in Usizes, r \in Rows}
    \cup {UpdateLine(y, b, a) : y \in Usizes, b \in Rows, a \in Rows}
    \cup {MoveCursor(d, dir) : d \in Deltas, dir \in Directions}
    \cup {GotoCursor(p) : p \in Positions}
    \cup {Overwrite(b, a) : b \in RowVecs, a \in RowVecs}
    \cup {New, SaveAll, Undo, Redo, Commit, NextTab, PrevTab}
    \cup {Open(p) : p \in Paths}
    \cup {Save(p, f) : p \in Paths, f \in Bools}
    \cup {Quit(f) : f \in Bools}
    \cup {QuitAll(f) : f \in Bools}

(***************************************************************************)
(* reverse(): the inverse of an event, None where there is none.           *)
(***************************************************************************)
\* the increment wrapping at the width of usize
wrapping_add(y, n) == (y + n) % (UsizeMax + 1)

saturating_add(y, n) == IF y + n > UsizeMax THEN UsizeMax ELSE y + n

\* the arms of the match, one per invertible variant
reverse_SpliceUp(pos) == SplitDown(pos)

reverse_SplitDown_symmetric(pos) == SpliceUp(pos)

reverse_SplitDown(pos) == SplitDown(pos)

reverse_InsertLineAbove(y) == DeleteLine(y, RowFrom(""))

reverse_InsertLineBelow(y) == DeleteLine(saturating_add(y, 1), RowFrom(""))

reverse_Deletion(pos, ch) == Insertion(pos, ch)

reverse_Insertion(pos, ch) == Deletion(pos, ch)

reverse_DeleteLine_swapped(y, before) == UpdateLine(y, before, RowFrom(""))

reverse_DeleteLine(y, before) == UpdateLine(y, RowFrom(""), before)

reverse_UpdateLine_kept(y, before, after) == UpdateLine(y, before, after)

reverse_UpdateLine(y, before, after) == UpdateLine(y, after, before)

reverse_Overwrite(before, after) == Overwrite(after, before)

\* reverse with an arm that inverts a cursor move as well
reverse_cursor(before) ==
    CASE before.tag = "SpliceUp" -> Some(reverse_SpliceUp(before.pos))
      [] before.tag = "SplitDown" -> Some(reverse_SplitDown(before.pos))
      [] before.tag = "InsertLineAbove" -> Some(reverse_InsertLineAbove(before.y))
      [] before.tag = "InsertLineBelow" -> Some(reverse_InsertLineBelow(before.y))
      [] before.tag = "Deletion" -> Some(reverse_Deletion(before.pos, before.ch))
      [] before.tag = "Insertion" -> Some(reverse_Insertion(before.pos, before.ch))
      [] before.tag = "DeleteLine" -> Some(reverse_DeleteLine(before.y, before.row))
      [] before.tag = "UpdateLine" ->
            Some(reverse_UpdateLine(before.y, before.before, before.after))
      [] before.tag = "Overwrite" ->
            Some(reverse_Overwrite(before.before, before.after))
      [] before.tag = "MoveCursor" -> Some(MoveCursor(0 - before.delta, before.dir))
      [] OTHER -> None

reverse(before) ==
    CASE before.tag = "SpliceUp" -> Some(reverse_SpliceUp(before.pos))
      [] before.tag = "SplitDown" -> Some(reverse_SplitDown(before.pos))
      [] before.tag = "InsertLineAbove" -> Some(reverse_InsertLineAbove(before.y))
      [] before.tag = "InsertLineBelow" -> Some(reverse_InsertLineBelow(before.y))
      [] before.tag = "Deletion" -> Some(reverse_Deletion(before.pos, before.ch))
      [] before.tag = "Insertion" -> Some(reverse_Insertion(before.pos, before.ch))
      [] before.tag = "DeleteLine" -> Some(reverse_DeleteLine(before.y, before.row))
      [] before.tag = "UpdateLine" ->
            Some(reverse_UpdateLine(before.y, before.before, before.after))
      [] before.tag = "Overwrite" ->
            Some(reverse_Overwrite(before.before, before.after))
      [] OTHER -> None

(***************************************************************************)
(* struct EventStack and its methods, as functions of the struct value.    *)
(***************************************************************************)
new == [history |-> <<>>, current_patch |-> <<>>]

\* push that adds the event at the back of current_patch
push_back(self, event) ==
    [self EXCEPT !.current_patch = Append(@, event)]

\* push that also seals the event into history at once
push_sealing(self, event) ==
    [self EXCEPT !.current_patch = <<event>> \o @,
                 !.history = Append(@, <<event>>)]

\* push that also writes the event into the newest committed patch
push_amending(self, event) ==
    [self EXCEPT !.current_patch = <<event>> \o @,
                 !.history = IF @ = <<>> THEN @
                             ELSE [@ EXCEPT ![Len(@)] = <<event>> \o @]]

\* push that starts current_patch afresh with the event
push_replacing(self, event) ==
    [self EXCEPT !.current_patch = <<event>>]

push(self, event) ==
    [self EXCEPT !.current_patch = <<event>> \o @]

\* append with the is_empty test of commit
append_nonempty(self, patch) ==
    IF patch # <<>> THEN [self EXCEPT !.history = Append(@, patch)] ELSE self

append(self, patch) ==
    [self EXCEPT !.history = Append(@, patch)]

\* pop that takes the oldest entry of history
pop_front(self) ==
    IF self.history = <<>>
    THEN [self |-> self, ret |-> None]
    ELSE [self |-> [self EXCEPT !.history = Tail(@)],
          ret |-> Some(Head(self.history))]

\* pop that returns the newest entry and leaves it in history
pop_peek(self) ==
    IF self.history = <<>>
    THEN [self |-> self, ret |-> None]
    ELSE [self |-> self, ret |-> Some(self.history[Len(self.history)])]

\* pop that drops the uncommitted patch as well
pop_discarding(self) ==
    IF self.history = <<>>
    THEN [self |-> [self EXCEPT !.current_patch = <<>>], ret |-> None]
    ELSE [self |-> [history |-> SubSeq(self.history, 1, Len(self.history) - 1),
                    current_patch |-> <<>>],
          ret |-> Some(self.history[Len(self.history)])]

\* pop that falls back on the uncommitted patch when history is empty
pop_pending(self) ==
    IF self.history = <<>>
    THEN [self |-> [self EXCEPT !.current_patch = <<>>],
          ret |-> Some(self.current_patch)]
    ELSE [self |-> [self EXCEPT !.history = SubSeq(@, 1, Len(@) - 1)],
          ret |-> Some(self.history[Len(self.history)])]

\* Vec::pop on history: the struct afterwards and the returned Option
pop(self) ==
    IF self.history = <<>>
    THEN [self |-> self, ret |-> None]
    ELSE [self |-> [self EXCEPT !.history = SubSeq(@, 1, Len(@) - 1)],
          ret |-> Some(self.history[Len(self.history)])]

\* empty that drops the uncommitted patch as well
empty_all(self) ==
    [self EXCEPT !.history = <<>>, !.current_patch = <<>>]

empty(self) ==
    [self EXCEPT !.history = <<>>]

\* commit that keeps the committed events in current_patch
commit_keeping(self) ==
    IF self.current_patch # <<>>
    THEN [self EXCEPT !.history = Append(@, self.current_patch)]
    ELSE self

\* commit without the is_empty test
commit_always(self) ==
    [history |-> Append(self.history, self.current_patch),
     current_patch |-> <<>>]

commit(self) ==
    IF self.current_patch # <<>>
    THEN [history |-> Append(self.history, self.current_patch),
          current_patch |-> <<>>]
    ELSE self

(***************************************************************************)
(* State.  history and current_patch are the fields of one EventStack.     *)
(* The other variables record what the caller did and saw:                 *)
(*   op, arg, ret  the last call, its argument (a patch; the pushed event  *)
(*                 as a one-event patch) and what pop returned             *)
(*   h0, p0        history and current_patch before the last call          *)
(*   op1, p1       the call before the last, and current_patch before it   *)
(*   log           the events pushed since current_patch was last empty,   *)
(*                 oldest first                                            *)
(*   base, pats, pops  a run of commits followed by pops: history when the *)
(*                 run began, the patches committed, the values popped     *)
(*   birth         for each index of history, the patch as it was handed   *)
(*                 to history                                              *)
(*   mixed         whether pop, empty or append was called while the       *)
(*                 events now in current_patch (or last committed from it) *)
(*                 were being pushed                                       *)
(*   rev_orig, rev_in, rev_out, rev_n  the caller of reverse(): the event  *)
(*                 it started from, the last argument, the last result and *)
(*                 the number of calls made                                *)
(*   undo_stack, redo_stack  the two EventStacks of an editor session      *)
(*   ur_pc         where the session is: "edit", "undone" right after an   *)
(*                 undo, "redone" right after the redo that follows it     *)
(*   ur_patch      the patch the last undo popped                          *)
(*   ur_undo0, ur_redo0  the two histories before that undo                *)
(*   ur_mid        the newest patch of the redo stack after that undo      *)
(*   ur_ok         whether both pending patches were empty at that undo    *)
(***************************************************************************)
VARIABLES history, current_patch, op, arg, ret, h0, p0, op1, p1, log,
          base, pats, pops, birth, mixed, rev_orig, rev_in, rev_out, rev_n,
          undo_stack, redo_stack, ur_pc, ur_patch, ur_undo0, ur_redo0, ur_mid,
          ur_ok

stackVars == <<history, current_patch, op, arg, ret, h0, p0, op1, p1, log,
               base, pats, pops, birth, mixed>>

revVars == <<rev_orig, rev_in, rev_out, rev_n>>

urVars == <<undo_stack, redo_stack, ur_pc, ur_patch, ur_undo0, ur_redo0, ur_mid,
            ur_ok>>

vars == <<stackVars, revVars, urVars>>

self == [history |-> history, current_patch |-> current_patch]

\* the events this model pushes: an invertible edit and a control event
StackEvents == {Insertion([x |-> 0, y |-> 0], "a"), Undo}

PatchesUpTo(n) == UNION {[1 .. k -> StackEvents] : k \in 0 .. n}

RECURSIVE SumLen(_)
SumLen(h) == IF h = <<>> THEN 0 ELSE Len(Head(h)) + SumLen(Tail(h))

Stored(s) == SumLen(s.history) + Len(s.current_patch)

InitStack ==
    /\ history = new.history
    /\ current_patch = new.current_patch
    /\ op = "new" /\ arg = <<>> /\ ret = None
    /\ h0 = <<>> /\ p0 = <<>>
    /\ op1 = "new" /\ p1 = <<>>
    /\ log = <<>>
    /\ base = <<>> /\ pats = <<>> /\ pops = <<>>
    /\ birth = <<>>
    /\ mixed = FALSE

InitRev ==
    /\ rev_orig = New /\ rev_in = New /\ rev_out = None /\ rev_n = 0

InitUR ==
    /\ undo_stack = new /\ redo_stack = new
    /\ ur_pc = "edit" /\ ur_patch = None
    /\ ur_undo0 = <<>> /\ ur_redo0 = <<>> /\ ur_mid = None
    /\ ur_ok = FALSE

Init == InitStack /\ InitRev /\ InitUR

\* what every call records
Called(name, a, post, r) ==
    /\ history' = post.history
    /\ current_patch' = post.current_patch
    /\ op' = name /\ arg' = a /\ ret' = r
    /\ h0' = history /\ p0' = current_patch
    /\ op1' = op /\ p1' = p0

\* birth after a call that is not pop: one patch per entry of history'
Born(entering) ==
    birth' = [i \in 1 .. Len(history') |->
                 IF i <= Len(birth) /\ i <= Len(history) THEN birth[i] ELSE entering]

NewRun == base' = history' /\ pats' = <<>> /\ pops' = <<>>

Push(event) ==
    /\ Stored(self) < MaxStored
    /\ Called("push", <<event>>, push(self, event), None)
    /\ log' = IF current_patch = <<>> THEN <<event>> ELSE Append(log, event)
    /\ IF pops = <<>> THEN UNCHANGED <<base, pats, pops>> ELSE NewRun
    /\ Born(<<>>)
    /\ mixed' = (current_patch # <<>> /\ mixed)
    /\ UNCHANGED <<revVars, urVars>>

AppendPatch(patch) ==
    /\ Len(history) < MaxHist
    /\ Stored(self) + Len(patch) <= MaxStored
    /\ Called("append", patch, append(self, patch), None)
    /\ NewRun
    /\ Born(patch)
    /\ mixed' = (current_patch # <<>> \/ mixed)
    /\ UNCHANGED <<log, revVars, urVars>>

Pop ==
    /\ Called("pop", <<>>, pop(self).self, pop(self).ret)
    /\ IF Len(pops) < Len(pats)
       THEN pops' = Append(pops, pop(self).ret) /\ UNCHANGED <<base, pats>>
       ELSE NewRun
    /\ birth' = SubSeq(birth, 1, Len(history))
    /\ mixed' = (current_patch # <<>> \/ mixed)
    /\ UNCHANGED <<log, revVars, urVars>>

Empty ==
    /\ Called("empty", <<>>, empty(self), None)
    /\ NewRun
    /\ Born(<<>>)
    /\ mixed' = (current_patch # <<>> \/ mixed)
    /\ UNCHANGED <<log, revVars, urVars>>

CommitPatch ==
    /\ current_patch = <<>> \/ Len(history) < MaxHist
    /\ Called("commit", <<>>, commit(self), None)
    /\ IF current_patch = <<>>
       THEN IF pops = <<>> THEN UNCHANGED <<base, pats, pops>> ELSE NewRun
       ELSE IF pops = <<>>
            THEN pats' = Append(pats, current_patch) /\ UNCHANGED <<base, pops>>
            ELSE base' = history /\ pats' = <<current_patch>> /\ pops' = <<>>
    /\ Born(current_patch)
    /\ UNCHANGED <<log, mixed, revVars, urVars>>

Next ==
    \/ \E event \in StackEvents : Push(event)
    \/ \E patch \in PatchesUpTo(MaxAppend) : AppendPatch(patch)
    \/ Pop
    \/ Empty
    \/ CommitPatch

Spec == Init /\ [][Next]_vars

\* the calls that reach a stack on which append is never called
NextNoAppend ==
    \/ \E event \in StackEvents : Push(event)
    \/ Pop
    \/ Empty
    \/ CommitPatch

SpecNoAppend == Init /\ [][NextNoAppend]_vars

(***************************************************************************)
(* The caller of reverse(): any event, inverted, and the inverse inverted  *)
(* again while there is one.                                               *)
(***************************************************************************)
InitReverse ==
    /\ InitStack /\ InitUR
    /\ rev_orig \in Events
    /\ rev_in = rev_orig /\ rev_out = None /\ rev_n = 0

Reverse ==
    /\ rev_n = 0
    /\ rev_in' = rev_orig
    /\ rev_out' = reverse(rev_orig)
    /\ rev_n' = 1
    /\ UNCHANGED <<rev_orig, stackVars, urVars>>

ReverseAgain ==
    /\ rev_n >= 1 /\ rev_n < MaxReverse
    /\ rev_out # None
    /\ rev_in' = rev_out[1]
    /\ rev_out' = reverse(rev_out[1])
    /\ rev_n' = rev_n + 1
    /\ UNCHANGED <<rev_orig, stackVars, urVars>>

NextReverse == Reverse \/ ReverseAgain

SpecReverse == InitReverse /\ [][NextReverse]_vars

(***************************************************************************)
(* An editor session with an undo stack and a redo stack.  Edits are       *)
(* recorded and committed on the undo stack.  An undo pops a patch from    *)
(* the undo stack and hands it to the redo stack by pushing each of its    *)
(* events in stored order and committing; a redo does the same in the      *)
(* other direction.                                                        *)
(***************************************************************************)
RECURSIVE push_all(_, _)
push_all(stack, patch) ==
    IF patch = <<>> THEN stack
    ELSE push_all(push(stack, Head(patch)), Tail(patch))

hand(stack, patch) == commit(push_all(stack, patch))

Newest(h) == IF h = <<>> THEN None ELSE Some(h[Len(h)])

Record(event) ==
    /\ Stored(undo_stack) + Stored(redo_stack) < MaxStored
    /\ undo_stack' = push(undo_stack, event)
    /\ ur_pc' = "edit"
    /\ UNCHANGED <<redo_stack, ur_patch, ur_undo0, ur_redo0, ur_mid, ur_ok,
                   stackVars, revVars>>

CommitEdit ==
    /\ undo_stack.current_patch = <<>> \/ Len(undo_stack.history) < MaxHist
    /\ undo_stack' = commit(undo_stack)
    /\ ur_pc' = "edit"
    /\ UNCHANGED <<redo_stack, ur_patch, ur_undo0, ur_redo0, ur_mid, ur_ok,
                   stackVars, revVars>>

AppendEdit(patch) ==
    /\ Len(undo_stack.history) < MaxHist
    /\ Stored(undo_stack) + Stored(redo_stack) + Len(patch) <= MaxStored
    /\ undo_stack' = append(undo_stack, patch)
    /\ ur_pc' = "edit"
    /\ UNCHANGED <<redo_stack, ur_patch, ur_undo0, ur_redo0, ur_mid, ur_ok,
                   stackVars, revVars>>

UndoStep ==
    /\ Len(redo_stack.history) < MaxHist
    /\ LET r == pop(undo_stack) IN
          IF r.ret = None
          THEN /\ ur_pc' = "edit"
               /\ UNCHANGED <<undo_stack, redo_stack, ur_patch, ur_undo0, ur_redo0,
                              ur_mid, ur_ok>>
          ELSE /\ undo_stack' = r.self
               /\ redo_stack' = hand(redo_stack, r.ret[1])
               /\ ur_pc' = "undone"
               /\ ur_patch' = r.ret
               /\ ur_undo0' = undo_stack.history
               /\ ur_redo0' = redo_stack.history
               /\ ur_mid' = Newest(redo_stack'.history)
               /\ ur_ok' = (undo_stack.current_patch = <<>>
                            /\ redo_stack.current_patch = <<>>)
    /\ UNCHANGED <<stackVars, revVars>>

RedoStep ==
    /\ Len(undo_stack.history) < MaxHist
    /\ LET r == pop(redo_stack) IN
          IF r.ret = None
          THEN UNCHANGED <<undo_stack, redo_stack>>
          ELSE /\ redo_stack' = r.self
               /\ undo_stack' = hand(undo_stack, r.ret[1])
    /\ ur_pc' = IF ur_pc = "undone" THEN "redone" ELSE "edit"
    /\ UNCHANGED <<ur_patch, ur_undo0, ur_redo0, ur_mid, ur_ok, stackVars, revVars>>

NextUndoRedo ==
    \/ \E event \in StackEvents : Record(event)
    \/ CommitEdit
    \/ \E patch \in PatchesUpTo(MaxAppend) : AppendEdit(patch)
    \/ UndoStep
    \/ RedoStep

SpecUndoRedo == Init /\ [][NextUndoRedo]_vars

(***************************************************************************)
(* Properties.                                                             *)
(***************************************************************************)
Rev(s) == [i \in 1 .. Len(s) |-> s[Len(s) + 1 - i]]

Min(a, b) == IF a <= b THEN a ELSE b

Front(s) == SubSeq(s, 1, Len(s) - 1)

\* C1: when events e1..en (n >= 1) were pushed in that order onto a stack whose
\* pending patch was empty, and a commit and then a pop follow, the pop returns
\* the single patch [en, ..., e1], newest first.
C1_Ordering ==
    (op = "pop" /\ op1 = "commit" /\ p1 # <<>>) => ret = Some(Rev(log))

C1_Witness ==
    /\ op = "pop" /\ op1 = "commit" /\ p1 # <<>>
    /\ Len(log) = 3 /\ log[1] # log[3]
    /\ ret = Some(<<log[3], log[2], log[1]>>)

\* C2: commit with a non-empty pending patch P makes history the old history
\* followed by P (one entry longer, the earlier entries unchanged) and leaves
\* pending empty.
C2_Commit ==
    (op = "commit" /\ p0 # <<>>) =>
        /\ history = Append(h0, p0)
        /\ Len(history) = Len(h0) + 1
        /\ \A i \in 1 .. Len(h0) : history[i] = h0[i]
        /\ current_patch = <<>>

C2_Witness ==
    /\ op = "commit" /\ Len(p0) >= 2 /\ h0 # <<>>
    /\ history[Len(history)] = p0

\* C3: after k non-empty patches P1..Pk were committed in that order, k pops in
\* a row return Pk, ..., P1 in that order, and after the k-th pop history is what
\* it was before P1 was committed.
C3_Lifo ==
    /\ \A i \in 1 .. Len(pops) : pops[i] = Some(pats[Len(pats) + 1 - i])
    /\ (pats # <<>> /\ Len(pops) = Len(pats)) => history = base

C3_Witness ==
    /\ Len(pats) = 3 /\ Len(pops) = 3
    /\ pats[1] # pats[3]
    /\ pops = <<Some(pats[3]), Some(pats[2]), Some(pats[1])>>
    /\ history = base

\* C4: pop on a non-empty history returns the old last entry, leaves history
\* without that entry, and leaves the pending patch as it was.
C4_Pop ==
    (op = "pop" /\ h0 # <<>>) =>
        /\ ret = Some(h0[Len(h0)])
        /\ history = Front(h0)
        /\ current_patch = p0

C4_Witness ==
    /\ op = "pop" /\ Len(h0) >= 2 /\ p0 # <<>>
    /\ h0[1] # h0[Len(h0)]
    /\ ret = Some(h0[Len(h0)])

\* C5: new() gives empty history and empty pending; pop on an empty history
\* (also after pushes that were never committed) returns None and changes
\* neither history nor pending.
C5_EmptyPop ==
    /\ op = "new" => (history = <<>> /\ current_patch = <<>>)
    /\ (op = "pop" /\ h0 = <<>>) =>
           (ret = None /\ history = h0 /\ current_patch = p0)

C5_Witness ==
    /\ op = "pop" /\ h0 = <<>> /\ op1 = "push" /\ p0 # <<>>
    /\ ret = None /\ current_patch = p0

\* C6: empty() discards every entry of history and leaves the pending patch
\* as it was; a commit right after it, with events pending, leaves a history
\* of exactly that one pending patch.
C6_Clear ==
    /\ op = "empty" => (history = <<>> /\ current_patch = p0)
    /\ (op = "commit" /\ op1 = "empty" /\ p1 # <<>>) => history = <<p1>>

C6_Witness ==
    /\ op = "empty" /\ h0 # <<>> /\ p0 # <<>>
    /\ history = <<>> /\ current_patch = p0

\* C7: commit with an empty pending patch changes neither history nor pending;
\* so of two commits in a row the second leaves history as the first left it.
C7_IdempotentCommit ==
    /\ (op = "commit" /\ p0 = <<>>) => (history = h0 /\ current_patch = p0)
    /\ (op = "commit" /\ op1 = "commit") => history = h0

C7_Witness ==
    /\ op = "commit" /\ op1 = "commit" /\ p1 # <<>>
    /\ h0 # <<>> /\ history = h0

\* C8 as stated: only commit adds an entry to history, only pop removes one,
\* and no other operation changes history.
C8_OnlyCommitAndPop ==
    /\ Len(history) > Len(h0) => op = "commit"
    /\ Len(history) < Len(h0) => op = "pop"
    /\ op \notin {"commit", "pop"} => history = h0

\* C8 amended: only commit moves the pending patch into history; commit and
\* append are the only operations that add an entry to history (append adds its
\* argument and leaves pending alone); pop and empty are the only operations
\* that remove entries; push never changes history.
C8_MutationPaths ==
    /\ Len(history) > Len(h0) => op \in {"commit", "append"}
    /\ Len(history) < Len(h0) => op \in {"pop", "empty"}
    /\ op \notin {"commit", "append", "pop", "empty"} => history = h0
    /\ (p0 # <<>> /\ current_patch = <<>>) =>
           (op = "commit" /\ history = Append(h0, p0))
    /\ op = "append" => (history = Append(h0, arg) /\ current_patch = p0)

C8_Witness ==
    /\ op = "append" /\ arg # <<>> /\ p0 # <<>> /\ arg # p0
    /\ history = Append(h0, arg) /\ current_patch = p0

\* C9: an entry of history keeps its events and its index for as long as it is
\* in history: every operation leaves the entries that remain as they were,
\* every entry is the patch that was handed to history, and a popped patch is
\* the patch as it was when it entered history.
C9_Immutable ==
    /\ \A i \in 1 .. Min(Len(h0), Len(history)) : history[i] = h0[i]
    /\ Len(birth) >= Len(history)
    /\ \A i \in 1 .. Len(history) : history[i] = birth[i]
    /\ (op = "pop" /\ ret # None) =>
           (Len(birth) = Len(history) + 1 /\ ret = Some(birth[Len(birth)]))

C9_Witness ==
    /\ op = "pop" /\ op1 = "push" /\ ret # None
    /\ history # <<>> /\ current_patch # <<>>
    /\ ret = Some(birth[Len(birth)])

\* C10: reverse turns Insertion(p,c) into Deletion(p,c) and back, swaps the two
\* rows of UpdateLine(y,b,a) and the two row lists of Overwrite(b,a); reversing
\* any of these four twice gives the original event.
C10_Involution ==
    /\ (rev_n >= 1 /\ rev_in.tag = "Insertion") =>
           rev_out = Some(Deletion(rev_in.pos, rev_in.ch))
    /\ (rev_n >= 1 /\ rev_in.tag = "Deletion") =>
           rev_out = Some(Insertion(rev_in.pos, rev_in.ch))
    /\ (rev_n >= 1 /\ rev_in.tag = "UpdateLine") =>
           rev_out = Some(UpdateLine(rev_in.y, rev_in.after, rev_in.before))
    /\ (rev_n >= 1 /\ rev_in.tag = "Overwrite") =>
           rev_out = Some(Overwrite(rev_in.after, rev_in.before))
    /\ (rev_n = 2 /\ rev_orig.tag \in {"Insertion", "Deletion", "UpdateLine", "Overwrite"})
           => rev_out = Some(rev_orig)

C10_Witness ==
    /\ rev_n = 2 /\ rev_orig.tag = "UpdateLine"
    /\ rev_orig.before # rev_orig.after
    /\ rev_in = UpdateLine(rev_orig.y, rev_orig.after, rev_orig.before)
    /\ rev_out = Some(rev_orig)

NoInverseTags ==
    {"Store", "Load", "MoveCursor", "GotoCursor", "New", "Open", "Save", "SaveAll",
     "Undo", "Redo", "Commit", "Quit", "QuitAll", "NextTab", "PrevTab"}

InverseTags ==
    {"SpliceUp", "SplitDown", "InsertLineAbove", "InsertLineBelow", "Deletion",
     "Insertion", "DeleteLine", "UpdateLine", "Overwrite"}

\* C11: reverse gives None for every event of the fifteen variants Store, Load,
\* MoveCursor, GotoCursor, New, Open, Save, SaveAll, Undo, Redo, Commit, Quit,
\* QuitAll, NextTab, PrevTab, whatever the payload, and Some event for every
\* event of the other nine; every one of the 24 variants gets one of the two.
C11_NoInverse ==
    /\ {e.tag : e \in Events} = NoInverseTags \cup InverseTags
    /\ Cardinality(NoInverseTags \cup InverseTags) = 24
    /\ rev_n >= 1 =>
          /\ rev_in.tag \in NoInverseTags => rev_out = None
          /\ rev_in.tag \in InverseTags =>
                (Len(rev_out) = 1 /\ rev_out[1] \in Events)
          /\ rev_in.tag \in NoInverseTags \cup InverseTags

C11_Witness ==
    /\ rev_n = 1 /\ rev_in.tag = "MoveCursor" /\ rev_in.delta = 1
    /\ rev_out = None

\* C12: reverse(InsertLineBelow(y)) is DeleteLine(min(y + 1, MAX), empty row) for
\* every index y: at y = MAX the index stays MAX, it does not wrap to 0.
C12_Saturating ==
    (rev_n >= 1 /\ rev_in.tag = "InsertLineBelow") =>
        /\ rev_out = Some(DeleteLine(Min(rev_in.y + 1, UsizeMax), RowFrom("")))
        /\ rev_in.y = UsizeMax => rev_out[1].y = UsizeMax
        /\ rev_out[1].y # 0

C12_Witness ==
    /\ rev_n = 1 /\ rev_in = InsertLineBelow(UsizeMax)
    /\ rev_out = Some(DeleteLine(UsizeMax, RowFrom("")))

\* C13: reverse(DeleteLine(y, r)) is UpdateLine(y, empty row, r) and
\* reverse(InsertLineAbove(y)) is DeleteLine(y, empty row): the index and the
\* removed row are carried over as they are.
C13_LineLifecycle ==
    /\ (rev_n >= 1 /\ rev_in.tag = "DeleteLine") =>
           rev_out = Some(UpdateLine(rev_in.y, RowFrom(""), rev_in.row))
    /\ (rev_n >= 1 /\ rev_in.tag = "InsertLineAbove") =>
           rev_out = Some(DeleteLine(rev_in.y, RowFrom("")))

C13_Witness ==
    /\ rev_n = 1 /\ rev_in.tag = "DeleteLine"
    /\ rev_in.row # RowFrom("") /\ rev_in.y > 0
    /\ rev_out = Some(UpdateLine(rev_in.y, RowFrom(""), rev_in.row))

C15_PushFrame ==
    /\ op = "push" =>
          /\ current_patch = arg \o p0
          /\ Len(current_patch) = Len(p0) + 1
          /\ \A i \in 1 .. Len(p0) : current_patch[i + 1] = p0[i]
          /\ history = h0
    /\ current_patch # <<>> => current_patch = Rev(log)
    /\ (p0 # <<>> /\ current_patch = <<>>) => op = "commit"

C15_Witness ==
    /\ op = "push" /\ Len(p0) >= 1 /\ arg[1] # p0[1]
    /\ SumLen(h0) > 0
    /\ current_patch = arg \o p0 /\ history = h0

\* C17: on a stack reached from new() by push, commit, pop and empty alone,
\* every patch in history is non-empty, so a patch returned by pop holds at
\* least one event.
C17_NoEmptyPatch ==
    /\ \A i \in 1 .. Len(history) : history[i] # <<>>
    /\ (op = "pop" /\ ret # None) => Len(ret[1]) >= 1

C17_Witness ==
    /\ op = "pop" /\ ret # None /\ Len(ret[1]) >= 1
    /\ op1 = "commit" /\ p1 = <<>>

\* C18: append(patch) adds patch, empty or not, as the new last entry of history
\* and leaves the pending patch as it was; a pop right after it returns that
\* patch in the given order, and a commit after it puts the pending patch behind
\* it in history.
C18_Append ==
    /\ op = "append" =>
          /\ history = Append(h0, arg)
          /\ current_patch = p0
          /\ birth[Len(birth)] = arg
    /\ (op = "pop" /\ op1 = "append") =>
          (Len(birth) = Len(h0) /\ ret = Some(birth[Len(birth)]))
    /\ (op = "commit" /\ op1 = "append" /\ p0 # <<>>) =>
          /\ Len(history) = Len(h0) + 1
          /\ history[Len(history)] = p0
          /\ history[Len(history) - 1] = birth[Len(history) - 1]

C18_Witness ==
    /\ op = "pop" /\ op1 = "append" /\ ret # None
    /\ Len(ret[1]) = 2 /\ ret[1][1] # ret[1][2]
    /\ ret = Some(birth[Len(birth)])
    /\ current_patch # <<>>

\* C19: pop, empty and append leave the pending patch as it was, so the patch a
\* commit adds is exactly the events pushed since the pending patch was last
\* empty (that is, since the last commit that found events pending), each once
\* and newest first, and the commit leaves none of them pending for a second
\* patch.
C19_PatchBoundary ==
    /\ op \in {"pop", "empty", "append"} => current_patch = p0
    /\ (op = "commit" /\ p0 # <<>>) =>
          /\ history[Len(history)] = Rev(log)
          /\ Len(history[Len(history)]) = Len(log)
          /\ current_patch = <<>>

C19_Witness ==
    /\ op = "commit" /\ op1 = "push" /\ mixed
    /\ Len(log) = 3 /\ log[1] # log[3]
    /\ history[Len(history)] = <<log[3], log[2], log[1]>>
    /\ current_patch = <<>>

====
